---- MODULE Spec2Model ----
(***************************************************************************)
(* Model of src/index.ts of reeloly-agent: the command-line entry point    *)
(* (program.action, runAgent) and the tool-approval gate                   *)
(* (promptForToolApproval), which answers AskUserQuestion through a file   *)
(* handshake in /tmp/claude-answers.                                       *)
(*                                                                         *)
(* Values.  A string the code only tests for truthiness and hands to       *)
(* JSON.parse is the record [len, json]: its length and whether it is a    *)
(* JSON text.  An environment variable is <<>> (unset) or <<string>>.      *)
(* The content of an answer file is [valid, doc]: whether it is a JSON     *)
(* text and the value it parses to.  A JavaScript value is [t, m]: its     *)
(* type and, for an object of strings, its entries as <<key, value>>.      *)
(* Time is in milliseconds since the invocation's call of pWaitFor; timers *)
(* fire when they are due (no timer latency), so time advances from one    *)
(* expiry to the next.                                                     *)
(*                                                                         *)
(* Environment.  The external actor writes the answer file of a tool-use   *)
(* id in one write and at most once, before the call is made or while it   *)
(* waits; a file the gate has seen may be removed by somebody else before  *)
(* the gate reads or unlinks it, and unlink may fail.  The Driver asks     *)
(* about each tool-use id once and ends the stream only when no call of    *)
(* the gate is pending.                                                    *)
(***************************************************************************)
EXTENDS Integers, Sequences, FiniteSets, TLC

VARIABLES
    env,        \* process.env: TASK_INPUT, TASK_IMAGES, ANTHROPIC_API_KEY
    dirOk,      \* whether mkdir(ANSWERS_DIR, {recursive: true}) can succeed
    pc,         \* position of the process
    exitCode,   \* <<>> while running, <<status>> after process.exit
    stderr,     \* diagnostics written with console.error, each a word list
    stdout,     \* lines written with console.log: "hint" or "event"
    runAgentCalls, \* number of calls of runAgent
    dirExists,  \* the scratch directory was created by this run
    dispatched, \* query() was called with the task
    fs,         \* scratch directory: path -> <<>> or <<content>>
    st,         \* per tool-use id: position of its promptForToolApproval call
    toolName,   \* per tool-use id: the tool name of the call
    input,      \* per tool-use id: the input of the call
    elapsed,    \* per tool-use id: ms since pWaitFor was called
    nextPoll,   \* per tool-use id: ms at which the next check is scheduled
    answers,    \* per tool-use id: the local `answers` (line 83)
    decision,   \* per tool-use id: <<>> or <<the returned PermissionResult>>
    reads,      \* per tool-use id: completed file.json() calls
    deletes,    \* per tool-use id: completed unlink() calls
    consumed,   \* per tool-use id: <<>> or <<the content file.json() read>>
    offered,    \* per tool-use id: <<>>, or <<when, content>> of the file put at its
                \* path before the wait ended; when is "intime" (a check was
                \* still to come) or "late" (the last check was over)
    clean,      \* per tool-use id: nobody else removed or rewrote its file, no I/O fault
    written     \* per tool-use id: the external actor has written its answer file

vars == <<env, dirOk, pc, exitCode, stderr, stdout, runAgentCalls, dirExists,
          dispatched, fs, st, toolName, input, elapsed, nextPoll, answers,
          decision, reads, deletes, consumed, offered, clean, written>>

procVars == <<env, dirOk, pc, exitCode, stderr, stdout, runAgentCalls,
              dirExists, dispatched>>
gateVars == <<st, toolName, input, elapsed, nextPoll, answers, decision,
              reads, deletes, consumed>>

(***************************************************************************)
(* Bounds of the model.                                                    *)
(***************************************************************************)
MaxEvents == 1      \* response events the Driver emits

(***************************************************************************)
(* Program constants.                                                      *)
(***************************************************************************)
ANSWERS_DIR == "/tmp/claude-answers"
Interval == 500
Timeout == 10000
DenyMessage == "Error waiting for answer file"

\* The tool-use ids of the run, in the order the service issues them.
IdSeq == <<"toolu_A", "toolu_B">>
ToolUseIDs == {IdSeq[k] : k \in 1..Len(IdSeq)}
\* Tool names the Driver asks about: the interactive tool and two others.
ToolNames == {"AskUserQuestion", "Bash", "Read"}

\* ------------------------------------------------------------ values
Undefined == [t |-> "undefined", m |-> {}]
Number5 == [t |-> "number", m |-> {}]
Obj(m) == [t |-> "object", m |-> m]

\* Strings of the environment: "", a non-JSON text, a JSON text.
EmptyString == [len |-> 0, json |-> FALSE]
PlainString == [len |-> 5, json |-> FALSE]
JsonString == [len |-> 2, json |-> TRUE]
EnvValues == {<<>>, <<EmptyString>>, <<PlainString>>, <<JsonString>>}

\* JavaScript truthiness of process.env.X: set and not the empty string.
Truthy(v) == v # <<>> /\ v[1].len > 0

\* Tool inputs: `questions` alone, or with a stale `answers` field.
Questions == Obj({<<"question", "Proceed?">>})
Inputs == { [questions |-> Questions],
            [questions |-> Questions, answers |-> Obj({<<"q1", "stale">>})] }

\* File contents.  doc = [t, has, answers]: the parsed value's type, whether
\* it has an own property `answers`, and that property's value.
Doc(t, has, a) == [t |-> t, has |-> has, answers |-> a]
GoodFor(id) == [valid |-> TRUE, doc |-> Doc("object", TRUE, Obj({<<"q1", id>>}))]
NoAnswersFile == [valid |-> TRUE, doc |-> Doc("object", FALSE, Undefined)]
WrongTypeFile == [valid |-> TRUE, doc |-> Doc("object", TRUE, Number5)]
NullFile == [valid |-> TRUE, doc |-> Doc("null", FALSE, Undefined)]
GarbageFile == [valid |-> FALSE, doc |-> Doc("undefined", FALSE, Undefined)]
Contents(id) == {GoodFor(id), NoAnswersFile, WrongTypeFile, NullFile, GarbageFile}

\* A well-formed answer file: a JSON object whose `answers` maps strings to strings.
WellFormed(c) == c.valid /\ c.doc.t = "object" /\ c.doc.has /\ c.doc.answers.t = "object"

\* ------------------------------------------------------------ diagnostics
TaskInputDiag == <<"Error:", "TASK_INPUT", "environment", "variable", "is", "not", "set">>
TaskImagesDiag == <<"Error", "parsing", "TASK_IMAGES", "environment", "variable">>
ApiKeyDiag == <<"Error:", "ANTHROPIC_API_KEY", "environment", "variable", "is", "not", "set">>
RunErrorDiag == <<"Error", "running", "agent:">>
GateDiag == <<"Error", "waiting", "for", "answer", "file">>

Mentions(diag, word) == \E k \in 1..Len(diag) : diag[k] = word

\* ------------------------------------------------------------ process
\* No call of the gate has been made and the scratch directory holds no file.
GateIdle ==
    /\ fs = [p \in {ANSWERS_DIR \o "/" \o id \o ".json" : id \in ToolUseIDs} |-> <<>>]
    /\ st = [id \in ToolUseIDs |-> "idle"]
    /\ toolName = [id \in ToolUseIDs |-> "Bash"]
    /\ input = [id \in ToolUseIDs |-> [questions |-> Questions]]
    /\ elapsed = [id \in ToolUseIDs |-> 0]
    /\ nextPoll = [id \in ToolUseIDs |-> 0]
    /\ answers = [id \in ToolUseIDs |-> Undefined]
    /\ decision = [id \in ToolUseIDs |-> <<>>]
    /\ reads = [id \in ToolUseIDs |-> 0]
    /\ deletes = [id \in ToolUseIDs |-> 0]
    /\ consumed = [id \in ToolUseIDs |-> <<>>]
    /\ offered = [id \in ToolUseIDs |-> <<>>]
    /\ clean = [id \in ToolUseIDs |-> TRUE]
    /\ written = [id \in ToolUseIDs |-> FALSE]

Init ==
    /\ env \in [TASK_INPUT : {<<>>, <<EmptyString>>, <<PlainString>>},
                TASK_IMAGES : EnvValues,
                ANTHROPIC_API_KEY : {<<>>, <<EmptyString>>, <<PlainString>>}]
    /\ dirOk \in BOOLEAN
    /\ pc = "start"
    /\ exitCode = <<>>
    /\ stderr = <<>>
    /\ stdout = <<>>
    /\ runAgentCalls = 0
    /\ dirExists = FALSE
    /\ dispatched = FALSE
    /\ GateIdle

\* process.exit(code) after console.error(diag).
Exit(code, diag) ==
    /\ pc' = "exited"
    /\ exitCode' = <<code>>
    /\ stderr' = Append(stderr, diag)

\* JSON.parse(text) throws a SyntaxError.
JSONParseThrows(text) == ~text.json

\* The catch of lines 208-214 without its process.exit.
ImagesRejectedNever(v) == FALSE

\* The TASK_IMAGES check of program.action (lines 203-215) ends the process.
ImagesRejected(v) == Truthy(v) /\ JSONParseThrows(v[1])

\* program.action, up to the first await of runAgent (lines 195-224).
Action ==
    /\ pc = "start"
    /\ IF ~Truthy(env.TASK_INPUT)
         THEN /\ Exit(1, TaskInputDiag)
              /\ UNCHANGED runAgentCalls
         ELSE IF ImagesRejected(env.TASK_IMAGES)
         THEN /\ Exit(1, TaskImagesDiag)
              /\ UNCHANGED runAgentCalls
         ELSE /\ pc' = "mkdir"
              /\ runAgentCalls' = runAgentCalls + 1
              /\ UNCHANGED <<exitCode, stderr>>
    /\ UNCHANGED <<env, dirOk, stdout, dirExists, dispatched, fs, written,
                   offered, clean>>
    /\ UNCHANGED gateVars

\* await mkdir(ANSWERS_DIR, {recursive: true}) (line 110); a rejection reaches
\* the catch of line 217.
Mkdir ==
    /\ pc = "mkdir"
    /\ IF dirOk
         THEN /\ pc' = "checkKey"
              /\ dirExists' = TRUE
              /\ UNCHANGED <<exitCode, stderr>>
         ELSE /\ Exit(1, RunErrorDiag)
              /\ UNCHANGED dirExists
    /\ UNCHANGED <<env, dirOk, stdout, runAgentCalls, dispatched, fs, written,
                   offered, clean>>
    /\ UNCHANGED gateVars

\* `apiKey === ""` in place of `!apiKey`.
ApiKeyMissingOnlyEmpty(apiKey) == apiKey = <<EmptyString>>

\* The test of line 115.
ApiKeyMissing(apiKey) == ~Truthy(apiKey)

\* The credential check and the call of query() (lines 113-153).
CheckKey ==
    /\ pc = "checkKey"
    /\ IF ApiKeyMissing(env.ANTHROPIC_API_KEY)
         THEN /\ Exit(1, ApiKeyDiag)
              /\ stdout' = Append(stdout, "hint")
              /\ UNCHANGED dispatched
         ELSE /\ pc' = "streaming"
              /\ dispatched' = TRUE
              /\ UNCHANGED <<exitCode, stderr, stdout>>
    /\ UNCHANGED <<env, dirOk, runAgentCalls, dirExists, fs, written,
                   offered, clean>>
    /\ UNCHANGED gateVars

Events == Len(SelectSeq(stdout, LAMBDA l : l = "event"))

\* No promptForToolApproval call is awaited by the Driver.
NoCallPending == \A id \in ToolUseIDs : st[id] \in {"idle", "done"}

\* One iteration of the for-await loop (lines 126-178).
EmitEvent ==
    /\ pc = "streaming"
    /\ Events < MaxEvents
    /\ stdout' = Append(stdout, "event")
    /\ UNCHANGED <<env, dirOk, pc, exitCode, stderr, runAgentCalls, dirExists,
                   dispatched, fs, written, offered, clean>>
    /\ UNCHANGED gateVars

\* The stream ends: runAgent resolves and the process ends with status 0.
DriverDone ==
    /\ pc = "streaming"
    /\ NoCallPending
    /\ pc' = "exited"
    /\ exitCode' = <<0>>
    /\ UNCHANGED <<env, dirOk, stderr, stdout, runAgentCalls, dirExists,
                   dispatched, fs, written, offered, clean>>
    /\ UNCHANGED gateVars

\* The stream throws: the catch of line 217 logs and exits with status 1.
DriverError ==
    /\ pc = "streaming"
    /\ NoCallPending
    /\ Exit(1, RunErrorDiag)
    /\ UNCHANGED <<env, dirOk, stdout, runAgentCalls, dirExists, dispatched, fs,
                   written, offered, clean>>
    /\ UNCHANGED gateVars

\* ------------------------------------------------------------ approval gate
\* One answer file shared by all calls.
AnswerFileShared(toolUseID) == ANSWERS_DIR \o "/" \o IdSeq[1] \o ".json"

\* The answer file of a call (line 64).
AnswerFile(toolUseID) == ANSWERS_DIR \o "/" \o toolUseID \o ".json"

\* The test of line 57 with the comparison inverted.
IsInteractiveFlipped(tn) == tn # "AskUserQuestion"

\* The test of line 57, negated: the tool is the interactive one.
IsInteractive(tn) == tn = "AskUserQuestion"

Allow(updatedInput) == [behavior |-> "allow", updatedInput |-> updatedInput]
\* A deny decision that carries no message.
DenyNoMessage == [behavior |-> "deny", message |-> ""]

Deny == [behavior |-> "deny", message |-> DenyMessage]

\* { answers, ...input }: a field `answers` of the input wins.
MergeInputWins(inp, ans) ==
    [f \in DOMAIN inp \cup {"answers"} |-> IF f \in DOMAIN inp THEN inp[f] ELSE ans]

\* { ...input, answers } (line 90): `answers` is set, also to undefined.
Merge(inp, ans) ==
    [f \in DOMAIN inp \cup {"answers"} |-> IF f = "answers" THEN ans ELSE inp[f]]

\* Bun.file(path).exists()
Exists(path) == fs[path] # <<>>

\* No catch block: the error leaves promptForToolApproval.
Rethrow(id) ==
    /\ st' = [st EXCEPT ![id] = "threw"]
    /\ UNCHANGED <<decision, stderr>>

\* The catch block (lines 92-101): log and return the deny decision.
Catch(id) ==
    /\ st' = [st EXCEPT ![id] = "done"]
    /\ decision' = [decision EXCEPT ![id] = <<Deny>>]
    /\ stderr' = Append(stderr, GateDiag)

\* The Driver calls canUseTool (lines 149-151, 55-64); for the interactive
\* tool the call runs up to the first check of pWaitFor being under way.
Invoke(id, tn, inp) ==
    /\ pc = "streaming"
    /\ st[id] = "idle"
    /\ \A k \in 1..Len(IdSeq) : IdSeq[k] = id => \A j \in 1..(k - 1) : st[IdSeq[j]] # "idle"
    /\ toolName' = [toolName EXCEPT ![id] = tn]
    /\ input' = [input EXCEPT ![id] = inp]
    /\ IF ~IsInteractive(tn)
         THEN /\ st' = [st EXCEPT ![id] = "done"]
              /\ decision' = [decision EXCEPT ![id] = <<Allow(inp)>>]
         ELSE /\ st' = [st EXCEPT ![id] = "waiting"]
              /\ UNCHANGED decision
    /\ UNCHANGED <<procVars, fs, elapsed, nextPoll, answers, reads, deletes,
                   consumed, offered, clean, written>>

\* One check of pWaitFor's condition (lines 69-72): resolve, or schedule the
\* next check after `interval`.
Poll(id) ==
    /\ pc = "streaming"
    /\ st[id] = "waiting"
    /\ elapsed[id] < Timeout
    /\ nextPoll[id] = elapsed[id]
    /\ IF Exists(AnswerFile(id))
         THEN \* resolved: pTimeout's timer is cleared
              /\ st' = [st EXCEPT ![id] = "found"]
              /\ nextPoll' = [nextPoll EXCEPT ![id] = 0]
              /\ elapsed' = [elapsed EXCEPT ![id] = 0]
         ELSE /\ nextPoll' = [nextPoll EXCEPT ![id] = elapsed[id] + Interval]
              /\ UNCHANGED <<st, elapsed>>
    /\ UNCHANGED <<procVars, fs, toolName, input, answers, decision,
                   reads, deletes, consumed, offered, clean, written>>

\* The timeout option set to the interval: the wait rejects after 500 ms.
TimeOutEarly(id) ==
    /\ pc = "streaming"
    /\ st[id] = "waiting"
    /\ elapsed[id] >= Interval
    /\ Catch(id)
    /\ nextPoll' = [nextPoll EXCEPT ![id] = 0]
    /\ elapsed' = [elapsed EXCEPT ![id] = 0]
    /\ UNCHANGED <<env, dirOk, pc, exitCode, stdout, runAgentCalls, dirExists,
                   dispatched, fs, toolName, input, answers,
                   reads, deletes, consumed, offered, clean, written>>

\* pWaitFor's timeout (line 76) rejects with a TimeoutError; the pending
\* check is cleared.
TimeOut(id) ==
    /\ pc = "streaming"
    /\ st[id] = "waiting"
    /\ elapsed[id] >= Timeout
    /\ Catch(id)
    /\ nextPoll' = [nextPoll EXCEPT ![id] = 0]
    /\ elapsed' = [elapsed EXCEPT ![id] = 0]
    /\ UNCHANGED <<env, dirOk, pc, exitCode, stdout, runAgentCalls, dirExists,
                   dispatched, fs, toolName, input, answers,
                   reads, deletes, consumed, offered, clean, written>>

\* Time passes up to the next expiry of a timer of a waiting call.
Tick ==
    /\ pc = "streaming"
    /\ \E id \in ToolUseIDs : st[id] = "waiting"
    /\ \A id \in ToolUseIDs :
          st[id] = "waiting" => elapsed[id] < nextPoll[id] /\ elapsed[id] < Timeout
    /\ elapsed' = [id \in ToolUseIDs |->
                      IF st[id] = "waiting" THEN elapsed[id] + Interval ELSE elapsed[id]]
    /\ UNCHANGED <<procVars, fs, st, toolName, input, nextPoll, answers, decision,
                   reads, deletes, consumed, offered, clean, written>>

\* file.json() settles and line 83 runs (lines 81-83); unlink is then under way.
Read(id) ==
    /\ pc = "streaming"
    /\ st[id] = "found"
    /\ LET path == AnswerFile(id) IN
       IF ~Exists(path)
         THEN \* ENOENT: the file vanished after the check saw it
              /\ Catch(id)
              /\ UNCHANGED <<answers, reads, consumed>>
         ELSE LET content == fs[path][1] IN
              /\ consumed' = [consumed EXCEPT ![id] = <<content>>]
              /\ IF ~content.valid
                   THEN \* SyntaxError of the JSON parser
                        /\ Catch(id)
                        /\ UNCHANGED <<answers, reads>>
                   ELSE IF content.doc.t = "null"
                   THEN \* TypeError: content.answers of null
                        /\ Catch(id)
                        /\ reads' = [reads EXCEPT ![id] = @ + 1]
                        /\ UNCHANGED answers
                   ELSE /\ st' = [st EXCEPT ![id] = "parsed"]
                        /\ answers' = [answers EXCEPT ![id] = content.doc.answers]
                        /\ reads' = [reads EXCEPT ![id] = @ + 1]
                        /\ UNCHANGED <<decision, stderr>>
    /\ UNCHANGED <<env, dirOk, pc, exitCode, stdout, runAgentCalls, dirExists,
                   dispatched, fs, toolName, input, elapsed, nextPoll, deletes,
                   offered, clean, written>>

\* Line 86 left out: the call goes on to return without removing the file.
UnlinkSkipped(id) ==
    /\ pc = "streaming"
    /\ st[id] = "parsed"
    /\ st' = [st EXCEPT ![id] = "unlinked"]
    /\ UNCHANGED <<procVars, fs, toolName, input, elapsed, nextPoll, answers,
                   decision, reads, deletes, consumed, offered, clean, written>>

\* unlink(answerFile) settles (line 86): the file is removed, or the call
\* rejects (the file is gone, or the directory refuses the removal).
Unlink(id) ==
    /\ pc = "streaming"
    /\ st[id] = "parsed"
    /\ \E fault \in BOOLEAN :
        LET path == AnswerFile(id) IN
        IF ~Exists(path) \/ fault
          THEN /\ Catch(id)
               /\ clean' = [clean EXCEPT ![id] = FALSE]
               /\ UNCHANGED <<fs, deletes>>
          ELSE /\ fs' = [fs EXCEPT ![path] = <<>>]
               /\ deletes' = [deletes EXCEPT ![id] = @ + 1]
               /\ st' = [st EXCEPT ![id] = "unlinked"]
               /\ UNCHANGED <<decision, stderr, clean>>
    /\ UNCHANGED <<env, dirOk, pc, exitCode, stdout, runAgentCalls, dirExists,
                   dispatched, toolName, input, elapsed, nextPoll, answers, reads,
                   consumed, offered, written>>

\* The return of lines 88-91.
Return(id) ==
    /\ pc = "streaming"
    /\ st[id] = "unlinked"
    /\ st' = [st EXCEPT ![id] = "done"]
    /\ decision' = [decision EXCEPT ![id] = <<Allow(Merge(input[id], answers[id]))>>]
    /\ UNCHANGED <<procVars, fs, toolName, input, elapsed, nextPoll, answers,
                   reads, deletes, consumed, offered, clean, written>>

\* ------------------------------------------------------------ external actor
\* The path at which the external actor answers a tool-use id.
PathOf(id) == ANSWERS_DIR \o "/" \o id \o ".json"

\* When a file put at the path of `id` now reaches its call.
When(id) == IF st[id] = "idle" \/ nextPoll[id] < Timeout THEN "intime" ELSE "late"

\* The external actor writes the answer file of a tool-use id: in one write,
\* once per id, before the call is made or while it waits.
ExternalWrite(id, content) ==
    /\ pc = "streaming"
    /\ ~written[id]
    /\ st[id] \in {"idle", "waiting"}
    /\ st[id] = "waiting" => elapsed[id] < Timeout
    /\ written' = [written EXCEPT ![id] = TRUE]
    /\ fs' = [fs EXCEPT ![PathOf(id)] = <<content>>]
    /\ offered' = [offered EXCEPT ![id] = <<When(id), content>>]
    /\ UNCHANGED <<procVars, clean>>
    /\ UNCHANGED gateVars

\* Somebody else removes an answer file the gate has seen and not yet removed.
ExternalRemove(id) ==
    /\ pc = "streaming"
    /\ fs[PathOf(id)] # <<>>
    /\ st[id] \in {"found", "parsed"}
    /\ fs' = [fs EXCEPT ![PathOf(id)] = <<>>]
    /\ clean' = [clean EXCEPT ![id] = FALSE]
    /\ UNCHANGED <<procVars, offered, written>>
    /\ UNCHANGED gateVars

\* ------------------------------------------------------------ specification
GateStep(id) ==
    \/ Poll(id)
    \/ TimeOut(id)
    \/ Read(id)
    \/ Unlink(id)
    \/ Return(id)

StartNext ==
    \/ Action
    \/ Mkdir
    \/ CheckKey
    \/ EmitEvent
    \/ DriverDone
    \/ DriverError

GateNext ==
    \/ \E id \in ToolUseIDs, tn \in ToolNames, inp \in Inputs : Invoke(id, tn, inp)
    \/ \E id \in ToolUseIDs : GateStep(id)
    \/ Tick
    \/ \E id \in ToolUseIDs : \E content \in Contents(id) : ExternalWrite(id, content)
    \/ \E id \in ToolUseIDs : ExternalRemove(id)

Next == StartNext \/ GateNext

\* The whole program.
Spec == Init /\ [][Next]_vars

\* The start of the process and the event loop, with no tool call made.
StartSpec == Init /\ [][StartNext]_vars

\* The state Spec reaches when start-up succeeds and query() has been called.
Streaming ==
    /\ env = [TASK_INPUT |-> <<PlainString>>, TASK_IMAGES |-> <<JsonString>>,
              ANTHROPIC_API_KEY |-> <<PlainString>>]
    /\ dirOk = TRUE
    /\ pc = "streaming"
    /\ exitCode = <<>>
    /\ stderr = <<>>
    /\ stdout = <<>>
    /\ runAgentCalls = 1
    /\ dirExists = TRUE
    /\ dispatched = TRUE
    /\ GateIdle

\* The start of the process under the event loop, which runs what is ready.
FairStartSpec ==
    /\ StartSpec
    /\ WF_vars(Action) /\ WF_vars(Mkdir) /\ WF_vars(CheckKey)

\* The approval gate while the Driver streams.
GateSpec == Streaming /\ [][GateNext]_vars

\* The event loop runs every continuation and timer that is due, and time passes.
FairGateSpec ==
    /\ GateSpec
    /\ WF_vars(Tick)
    /\ \A id \in ToolUseIDs :
          /\ WF_vars(Poll(id)) /\ WF_vars(TimeOut(id)) /\ WF_vars(Read(id))
          /\ WF_vars(Unlink(id)) /\ WF_vars(Return(id))

\* ------------------------------------------------------------ properties
Interactive == "AskUserQuestion"

\* The call of `id` returns in this step.
Returns(id) == st[id] # "done" /\ st'[id] = "done"

IsAllow(d) == d # <<>> /\ d[1].behavior = "allow"
IsDeny(d) == d # <<>> /\ d[1].behavior = "deny"

\* d allows the tool with the input `inp` extended by `answers` = ans.
AllowsWith(d, inp, ans) ==
    /\ IsAllow(d)
    /\ DOMAIN d[1].updatedInput = DOMAIN inp \cup {"answers"}
    /\ d[1].updatedInput["answers"] = ans
    /\ \A f \in DOMAIN inp \ {"answers"} : d[1].updatedInput[f] = inp[f]

\* C1: a call for a tool other than AskUserQuestion returns in the step that
\* makes it, with Allow and the input it was given, and the scratch directory
\* is neither read nor changed by it, then or later.
C1_AutoAllow ==
    /\ [](\A id \in ToolUseIDs :
            (st[id] # "idle" /\ toolName[id] # Interactive) =>
                /\ st[id] = "done"
                /\ decision[id] = <<[behavior |-> "allow", updatedInput |-> input[id]]>>
                /\ reads[id] = 0 /\ deletes[id] = 0 /\ consumed[id] = <<>>)
    /\ [][\A id \in ToolUseIDs :
            (st[id] = "idle" /\ st'[id] # "idle" /\ toolName'[id] # Interactive) =>
                (st'[id] = "done" /\ fs' = fs)]_vars

C1_Witness ==
    \E id \in ToolUseIDs :
        /\ st[id] = "done" /\ toolName[id] = "Bash"
        /\ decision[id] = <<[behavior |-> "allow", updatedInput |-> input[id]]>>
        /\ \E other \in ToolUseIDs : fs[PathOf(other)] # <<>>

\* C2 as claimed: when a well-formed answer file is put at the path of a
\* pending AskUserQuestion call before the timeout elapses, and nobody else
\* touches it and no I/O fails, the call returns Allow with the file's answers
\* merged into the input, and the file is gone when it returns.
C2_AnyMomentBeforeTimeout ==
    [][\A id \in ToolUseIDs :
        ( /\ Returns(id) /\ toolName'[id] = Interactive
          /\ offered'[id] # <<>> /\ WellFormed(offered'[id][2]) /\ clean'[id] )
        => /\ AllowsWith(decision'[id], input[id], offered'[id][2].doc.answers)
           /\ fs'[PathOf(id)] = <<>>]_vars

\* C2 amended: the same, for a file that is in place when one of the checks
\* of the call runs (the last check runs one interval before the timeout).
C2_SeenByACheck ==
    [][\A id \in ToolUseIDs :
        ( /\ Returns(id) /\ toolName'[id] = Interactive
          /\ offered'[id] # <<>> /\ WellFormed(offered'[id][2]) /\ clean'[id]
          /\ offered'[id][1] = "intime" )
        => /\ AllowsWith(decision'[id], input[id], offered'[id][2].doc.answers)
           /\ fs'[PathOf(id)] = <<>>]_vars

\* A call found the well-formed file written for it and allowed the tool with
\* the file's answers in place of the stale ones of its input.
C2_Witness ==
    \E id \in ToolUseIDs :
        /\ st[id] = "done" /\ toolName[id] = Interactive
        /\ offered[id] = <<"intime", GoodFor(id)>> /\ clean[id]
        /\ "answers" \in DOMAIN input[id]
        /\ AllowsWith(decision[id], input[id], GoodFor(id).doc.answers)
        /\ fs[PathOf(id)] = <<>>

\* C3: an AskUserQuestion call at whose path no file was put before its wait
\* ended returns Deny with a non-empty message, and no file is at its path.
C3_TimeoutDenies ==
    [][\A id \in ToolUseIDs :
        (Returns(id) /\ toolName'[id] = Interactive /\ offered'[id] = <<>>)
        => /\ IsDeny(decision'[id])
           /\ decision'[id][1].message # ""
           /\ elapsed[id] >= Timeout
           /\ fs'[PathOf(id)] = <<>>]_vars

C3_Witness ==
    \E id \in ToolUseIDs :
        /\ st[id] = "done" /\ toolName[id] = Interactive /\ offered[id] = <<>>
        /\ IsDeny(decision[id]) /\ decision[id][1].message = DenyMessage

\* C4 as claimed: a call that read an answer file which is not well-formed
\* (not JSON, no `answers` field, `answers` of the wrong type) returned Deny.
C4_InvalidFileDenied ==
    \A id \in ToolUseIDs :
        ( /\ st[id] = "done" /\ toolName[id] = Interactive
          /\ consumed[id] # <<>> /\ ~WellFormed(consumed[id][1]) )
        => IsDeny(decision[id])

\* C5: the wait of a call ends by a check only when a file is at its own path;
\* a call reads the file at its own path and no other; a step in which the
\* file of one call disappears is no unlink of another call; and the answers
\* written for one call are in no other call's decision.
C5_NoInterference ==
    /\ [](\A id \in ToolUseIDs : \A other \in ToolUseIDs \ {id} :
            (IsAllow(decision[id]) /\ "answers" \in DOMAIN decision[id][1].updatedInput) =>
                decision[id][1].updatedInput["answers"] # GoodFor(other).doc.answers)
    /\ [][\A id \in ToolUseIDs :
            /\ (st[id] = "waiting" /\ st'[id] = "found") => fs[PathOf(id)] # <<>>
            /\ (st[id] = "found" /\ st'[id] # "found") => consumed'[id] = fs[PathOf(id)]
            /\ (fs[PathOf(id)] # <<>> /\ fs'[PathOf(id)] = <<>>) =>
                    \A other \in ToolUseIDs \ {id} :
                        deletes'[other] = deletes[other] /\ st'[other] = st[other]]_vars

\* Both calls have been waiting for at least one interval, the file of the
\* first is in place and the second has none.
C5_Witness ==
    /\ st[IdSeq[1]] = "waiting" /\ st[IdSeq[2]] = "waiting"
    /\ fs[PathOf(IdSeq[1])] = <<GoodFor(IdSeq[1])>>
    /\ fs[PathOf(IdSeq[2])] = <<>>
    /\ elapsed[IdSeq[2]] >= Interval
    /\ nextPoll[IdSeq[2]] = elapsed[IdSeq[2]]

\* C6: no call ends by throwing; a call whose wait, read or unlink fails
\* returns, in that step, Deny with the fixed message.
C6_FailuresDenied ==
    /\ [](\A id \in ToolUseIDs :
            /\ st[id] # "threw"
            /\ st[id] = "done" => Len(decision[id]) = 1)
    /\ [][\A id \in ToolUseIDs :
            ( \/ st[id] = "waiting" /\ st'[id] \notin {"waiting", "found"}
              \/ st[id] = "found" /\ st'[id] \notin {"found", "parsed"}
              \/ st[id] = "parsed" /\ st'[id] \notin {"parsed", "unlinked"} )
            => /\ st'[id] = "done"
               /\ decision'[id] = <<[behavior |-> "deny", message |-> DenyMessage]>>]_vars

\* One call was denied by a failed unlink of a file it had read, the other by
\* a file that vanished after the check saw it.
C6_Witness ==
    \E a \in ToolUseIDs : \E b \in ToolUseIDs \ {a} :
        /\ st[a] = "done" /\ IsDeny(decision[a]) /\ reads[a] = 1 /\ deletes[a] = 0
        /\ st[b] = "done" /\ IsDeny(decision[b]) /\ offered[b] # <<>>
        /\ consumed[b] = <<>> /\ ~clean[b]

KeyUnset == env.ANTHROPIC_API_KEY = <<>>
NamesKey == \E k \in 1..Len(stderr) : Mentions(stderr[k], "ANTHROPIC_API_KEY")

\* C7 as claimed: with ANTHROPIC_API_KEY unset, whatever the rest of the
\* environment, the process does not dispatch the task or emit an event, and
\* has exited only with status 1 and a diagnostic naming ANTHROPIC_API_KEY.
C7_AlwaysNamesKey ==
    KeyUnset =>
        /\ pc # "streaming" /\ ~dispatched /\ Events = 0
        /\ pc = "exited" => (exitCode = <<1>> /\ NamesKey)

\* C7 amended: with ANTHROPIC_API_KEY unset the process exits, with status 1,
\* without dispatching the task or emitting an event; its diagnostic names
\* ANTHROPIC_API_KEY when TASK_INPUT is non-empty, TASK_IMAGES is unset, empty
\* or JSON, and the scratch directory can be created.
C7_KeyUnsetExits ==
    /\ [](KeyUnset =>
            /\ pc # "streaming" /\ ~dispatched /\ Events = 0
            /\ pc = "exited" =>
                /\ exitCode = <<1>>
                /\ Len(stderr) = 1
                /\ ( /\ env.TASK_INPUT # <<>> /\ env.TASK_INPUT[1].len > 0
                     /\ ( \/ env.TASK_IMAGES = <<>>
                          \/ env.TASK_IMAGES[1].len = 0
                          \/ env.TASK_IMAGES[1].json )
                     /\ dirOk ) => NamesKey)
    /\ (KeyUnset ~> pc = "exited")

C7_Witness ==
    /\ KeyUnset /\ pc = "exited" /\ exitCode = <<1>> /\ NamesKey
    /\ dirExists /\ runAgentCalls = 1

NeverRan ==
    /\ runAgentCalls = 0 /\ ~dirExists /\ ~dispatched /\ Events = 0
    /\ pc \in {"start", "exited"}
    /\ pc = "exited" => exitCode = <<1>>

\* C8 as claimed: with TASK_IMAGES set to a text that is not JSON, runAgent is
\* never called (no scratch directory, no dispatch, no event) and the process
\* has exited only with status 1.
C8_NonJsonNeverRuns ==
    (env.TASK_IMAGES # <<>> /\ ~env.TASK_IMAGES[1].json) => NeverRan

\* C8 amended: the same for a non-empty text that is not JSON; the process exits.
C8_NonEmptyNonJsonNeverRuns ==
    /\ []((env.TASK_IMAGES # <<>> /\ env.TASK_IMAGES[1].len > 0
            /\ ~env.TASK_IMAGES[1].json) => NeverRan)
    /\ ((env.TASK_IMAGES # <<>> /\ env.TASK_IMAGES[1].len > 0
            /\ ~env.TASK_IMAGES[1].json) ~> pc = "exited")

C8_Witness ==
    /\ env.TASK_IMAGES = <<PlainString>> /\ env.TASK_INPUT = <<PlainString>>
    /\ env.ANTHROPIC_API_KEY = <<PlainString>> /\ dirOk
    /\ pc = "exited" /\ exitCode = <<1>>
    /\ stderr = <<TaskImagesDiag>>

\* C9: every call that was made returns one decision; the wait of an
\* AskUserQuestion call ends by a check that sees the file or at the timeout;
\* after its return a call takes no step and its decision stays.
C9_OneDecision ==
    /\ \A id \in ToolUseIDs : (st[id] # "idle") ~> (st[id] = "done")
    /\ [](\A id \in ToolUseIDs :
            /\ Len(decision[id]) <= 1
            /\ st[id] = "done" <=> decision[id] # <<>>
            /\ decision[id] # <<>> => (IsAllow(decision[id]) \/ IsDeny(decision[id])))
    /\ [][\A id \in ToolUseIDs :
            /\ (st[id] = "waiting" /\ st'[id] # "waiting") =>
                    \/ st'[id] = "found" /\ fs[PathOf(id)] # <<>> /\ elapsed[id] < Timeout
                    \/ st'[id] = "done" /\ elapsed[id] = Timeout
            /\ st[id] = "done" =>
                    /\ st'[id] = "done" /\ decision'[id] = decision[id]
                    /\ reads'[id] = reads[id] /\ deletes'[id] = deletes[id]
                    /\ nextPoll'[id] = nextPoll[id] /\ elapsed'[id] = elapsed[id]
                    /\ consumed'[id] = consumed[id]]_vars

\* One call timed out with no file ever written, the other saw its file.
C9_Witness ==
    \E a \in ToolUseIDs : \E b \in ToolUseIDs \ {a} :
        /\ st[a] = "done" /\ toolName[a] = Interactive /\ IsDeny(decision[a])
        /\ ~written[a]
        /\ st[b] = "done" /\ IsAllow(decision[b]) /\ written[b]

\* C10: a call has removed a file exactly when it returned Allow: an Allow
\* follows one read and one unlink that succeeded, a call that returned Deny
\* has removed nothing, and the step that returns Deny leaves the scratch
\* directory as it is, with the file that could not be parsed still there.
C10_DeleteIffAllow ==
    /\ [](\A id \in ToolUseIDs :
            /\ deletes[id] <= 1 /\ reads[id] <= 1
            /\ (st[id] = "done" /\ toolName[id] = Interactive) =>
                /\ IsAllow(decision[id]) => (reads[id] = 1 /\ deletes[id] = 1)
                /\ IsDeny(decision[id]) => deletes[id] = 0)
    /\ [][\A id \in ToolUseIDs :
            /\ (Returns(id) /\ IsDeny(decision'[id])) => fs' = fs
            /\ (Returns(id) /\ IsAllow(decision'[id]) /\ toolName'[id] = Interactive) =>
                    fs'[PathOf(id)] = <<>>
            /\ deletes'[id] # deletes[id] =>
                    (fs[PathOf(id)] # <<>> /\ fs'[PathOf(id)] = <<>>)]_vars

\* A call was denied for a file that is not JSON, and the file is still there.
C10_Witness ==
    \E id \in ToolUseIDs :
        /\ st[id] = "done" /\ IsDeny(decision[id])
        /\ consumed[id] = <<GarbageFile>> /\ fs[PathOf(id)] = <<GarbageFile>>
        /\ \E other \in ToolUseIDs \ {id} : IsAllow(decision[other]) /\ deletes[other] = 1

====
